---- MODULE Spec2Model ----
(***************************************************************************)
(* orizuru: a reliable queue on Redis lists.  The model holds the Redis    *)
(* keys the library touches (the source queue, every consumer's processing *)
(* and unacked queue, a re-route target queue, the consumer registry), the *)
(* local state of every Consumer (its stopped flag and the MessageGuards   *)
(* it handed out), and the position of a GC that runs collect_one and      *)
(* collect one Redis command at a time.  Every Redis command either takes  *)
(* effect or fails with a transport error and changes nothing.             *)
(***************************************************************************)
EXTENDS Integers, Sequences, FiniteSets, TLC

\* ------------------------------------------------------------------ bounds
\* Number of Producer.push calls that reach Redis.
MaxPush == 2
\* Cap on the number of list entries in Redis; a guard's LPUSH that would
\* exceed it is not taken (repeated reject()/push() calls add entries).
MaxEntries == 2

\* ------------------------------------------------------------------ names
Consumers == {"c1", "c2"}

\* Message { id } values the producer sends, and a job of another type.
Ids == {1, 2}
Message(id) == [type |-> "Message", id |-> id]
BrokenMessage == [type |-> "Broken", id |-> 0]
Jobs == {Message(id) : id \in Ids} \cup {BrokenMessage}

\* rmp_serde writes a struct as an array of its fields: 0x91 <id> for
\* Message { id }, 0x90 for the field-less BrokenMessage {}.
encode_message(job) ==
    IF job.type = "Message" THEN <<145, job.id>> ELSE <<144>>

\* A decoder that takes any bulk reply for a Message.
decode_anything(value) ==
    IF value.kind # "Data" THEN [ok |-> FALSE, id |-> 0, err |-> "can only decode from a string"]
    ELSE [ok |-> TRUE, id |-> 0, err |-> ""]

\* decode_message::<Message> of a redis Value; only Value::Data holding a
\* one-element array with a positive fixint decodes.
decode_message(value) ==
    IF value.kind # "Data" THEN [ok |-> FALSE, id |-> 0, err |-> "can only decode from a string"]
    ELSE IF Len(value.data) = 2 /\ value.data[1] = 145 /\ value.data[2] \in 0..127
         THEN [ok |-> TRUE, id |-> value.data[2], err |-> ""]
         ELSE [ok |-> FALSE, id |-> 0, err |-> "failed to decode value with msgpack"]

Payloads == {encode_message(j) : j \in Jobs}

\* Redis keys.
SourceQ == <<"queue", "source">>
RetryQ == <<"queue", "retry">>
ProcessingQ(c) == <<"processing", c>>
UnackedQ(c) == <<"unacked", c>>
Keys == {SourceQ, RetryQ} \cup {ProcessingQ(c) : c \in Consumers}
            \cup {UnackedQ(c) : c \in Consumers}
\* Queues a caller passes to MessageGuard::push.
Targets == {RetryQ}

VARIABLES
    lists,      \* Redis lists: key -> sequence of payloads, head first
    registry,   \* Redis set orizuru:consumers
    pending,    \* per connection: commands of a pipeline not yet executed
    stopped,    \* Consumer.stopped
    guards,     \* per consumer: the live MessageGuards, oldest first
    gc,         \* the GC's position inside collect_one / collect
    pushLog,    \* payloads LPUSHed by Producer.push, in call order
    claimLog,   \* per consumer: the payloads its BRPOPLPUSH moved, in order
    acked,      \* payloads some guard's ack() was called with
    clock,      \* SystemTime::now(), in ms relative to the Unix epoch
    heartbeats,     \* Redis hash orizuru:heartbeats: name -> timestamp
    heartbeat_key,  \* Redis strings orizuru:consumers:{c}:heartbeat, with expiry
    beat        \* per consumer: its heartbeat calls and what the last returned

\* The state heartbeat() works on.
hbVars == <<clock, heartbeats, heartbeat_key, beat>>

vars == <<lists, registry, pending, stopped, guards, gc, pushLog,
          claimLog, acked, clock, heartbeats, heartbeat_key, beat>>

\* ---------------------------------------------------------- Redis commands
\* Number of entries of list s equal to v.
Count(s, v) == Cardinality({i \in 1..Len(s) : s[i] = v})

\* A push that inserts at the tail instead.
LPushTail(db, key, v) == [db EXCEPT ![key] = @ \o <<v>>]

\* LPUSH key v: insert at the head.
LPush(db, key, v) == [db EXCEPT ![key] = <<v>> \o @]

\* LREM s 1 v on one list: drop the first entry equal to v, from the head.
RECURSIVE RemoveFirst(_, _)
RemoveFirst(s, v) ==
    IF s = <<>> THEN <<>>
    ELSE IF Head(s) = v THEN Tail(s)
    ELSE <<Head(s)>> \o RemoveFirst(Tail(s), v)

\* A removal of every entry equal to v, as LREM key 0 v would do.
LRemAll(db, key, v) == [db EXCEPT ![key] = SelectSeq(@, LAMBDA e : e # v)]

LRem(db, key, v) == [db EXCEPT ![key] = RemoveFirst(@, v)]

\* What LREM key 1 v replies: the number of removed entries.
LRemReply(db, key, v) == IF Count(db[key], v) > 0 THEN 1 ELSE 0

\* A pop of the tail of src that does not store it in dst, as BRPOP would do.
RPopOnly(db, src, dst) ==
    [db EXCEPT ![src] = SubSeq(@, 1, Len(@) - 1)]

\* A move of the head of src to the head of dst.
LPopLPush(db, src, dst) ==
    [db EXCEPT ![src] = Tail(@), ![dst] = <<Head(db[src])>> \o @]

\* A move that leaves the tail of src where it was.
RPopLPushKeep(db, src, dst) ==
    [db EXCEPT ![dst] = <<db[src][Len(db[src])]>> \o @]

\* (B)RPOPLPUSH src dst: move the tail of src to the head of dst.
RPopLPush(db, src, dst) ==
    LET n == Len(db[src])
        v == db[src][n]
    IN [db EXCEPT ![src] = SubSeq(@, 1, n - 1), ![dst] = <<v>> \o @]

LLen(db, key) == Len(db[key])

\* One command of a pipeline applied to the lists.
ApplyCmd(db, cmd) ==
    IF cmd.op = "LPUSH" THEN LPush(db, cmd.key, cmd.arg)
    ELSE IF cmd.op = "LREM" THEN LRem(db, cmd.key, cmd.arg)
    ELSE db

RECURSIVE ApplyAll(_, _)
ApplyAll(db, cmds) ==
    IF cmds = <<>> THEN db ELSE ApplyAll(ApplyCmd(db, Head(cmds)), Tail(cmds))

\* The positions of the lists ks: <<key, index>>.
Positions(db, ks) == UNION {{<<k, i>> : i \in 1..Len(db[k])} : k \in ks}

SumLen(db, ks) == Cardinality(Positions(db, ks))

\* All list entries in Redis.
TotalEntries == SumLen(lists, Keys)

\* Entries equal to v over every list.
CountIn(db, ks, v) ==
    Cardinality({p \in Positions(db, ks) : db[p[1]][p[2]] = v})

Copies(v) == CountIn(lists, Keys, v)

GcIdle == [pc |-> "idle", mode |-> "none", todo |-> <<>>, cur |-> "",
           n |-> 0, i |-> 0, total |-> 0, sum |-> 0]

Init ==
    /\ lists = [k \in Keys |-> <<>>]
    /\ registry = {}
    /\ pending = [c \in Consumers |-> <<>>]
    /\ stopped = [c \in Consumers |-> FALSE]
    /\ guards = [c \in Consumers |-> <<>>]
    /\ gc = GcIdle
    /\ pushLog = <<>>
    /\ claimLog = [c \in Consumers |-> <<>>]
    /\ acked = {}
    /\ clock = -1
    /\ heartbeats = <<>>
    /\ heartbeat_key = <<>>
    /\ beat = [c \in Consumers |->
                 [calls |-> 0, ts |-> 0, ok |-> FALSE, returned |-> FALSE]]

\* A consumer's connection is borrowed by one call at a time: while commands
\* of a pipeline it sent are outstanding, the consumer is inside that call.
Free(c) == pending[c] = <<>>


\* ------------------------------------------------------------------ Producer
\* A push that sends its LPUSH twice.
ProducerPushTwice(job, fails) ==
    /\ Len(pushLog) < MaxPush
    /\ LET encoded == encode_message(job)
       IN IF fails
          THEN UNCHANGED <<lists, pushLog>>
          ELSE /\ lists' = LPush(LPush(lists, SourceQ, encoded), SourceQ, encoded)
               /\ pushLog' = Append(pushLog, encoded)
    /\ UNCHANGED <<registry, pending, stopped, guards, gc, claimLog, acked>>
    /\ UNCHANGED hbVars

\* Producer::push: encode, then LPUSH onto the source queue.
ProducerPush(job, fails) ==
    /\ Len(pushLog) < MaxPush
    /\ LET encoded == encode_message(job)
       IN IF fails
          THEN UNCHANGED <<lists, pushLog>>
          ELSE /\ lists' = LPush(lists, SourceQ, encoded)
               /\ pushLog' = Append(pushLog, encoded)
    /\ UNCHANGED <<registry, pending, stopped, guards, gc, claimLog, acked>>
    /\ UNCHANGED hbVars

\* What Producer::push returns.
ProducerPushReturn(job, fails) ==
    IF fails THEN [res |-> "Err", msg |-> "failed to push"]
    ELSE [res |-> "Ok", msg |-> ""]

\* Producer::size: LLEN of the source queue, 0 when the command fails.
producer_size(fails) == IF fails THEN 0 ELSE LLen(lists, SourceQ)

\* ------------------------------------------------------------------ Consumer
\* A register that overwrites the registry with the one name.
RegisterAlone(c, fails) ==
    /\ Free(c)
    /\ registry' = IF fails THEN registry ELSE {c}
    /\ UNCHANGED <<lists, pending, stopped, guards, gc, pushLog, claimLog, acked>>
    /\ UNCHANGED hbVars

\* Consumer::register: SADD orizuru:consumers name.
Register(c, fails) ==
    /\ Free(c)
    /\ registry' = IF fails THEN registry ELSE registry \cup {c}
    /\ UNCHANGED <<lists, pending, stopped, guards, gc, pushLog, claimLog, acked>>
    /\ UNCHANGED hbVars

\* Consumer::deregister: SREM orizuru:consumers name.
Deregister(c, fails) ==
    /\ Free(c)
    /\ registry' = IF fails THEN registry ELSE registry \ {c}
    /\ UNCHANGED <<lists, pending, stopped, guards, gc, pushLog, claimLog, acked>>
    /\ UNCHANGED hbVars

\* A stop that sets the flag and leaves the name in the registry.
StopKeepsName(c, fails) ==
    /\ Free(c)
    /\ stopped' = [stopped EXCEPT ![c] = TRUE]
    /\ UNCHANGED <<lists, registry, pending, guards, gc, pushLog, claimLog, acked>>
    /\ UNCHANGED hbVars

\* Consumer::stop: set the flag, then SREM orizuru:consumers name.
Stop(c, fails) ==
    /\ Free(c)
    /\ stopped' = [stopped EXCEPT ![c] = TRUE]
    /\ registry' = IF fails THEN registry ELSE registry \ {c}
    /\ UNCHANGED <<lists, pending, guards, gc, pushLog, claimLog, acked>>
    /\ UNCHANGED hbVars

\* Consumer::size: LLEN of the source queue, 0 when the command fails.
consumer_size(c, fails) == IF fails THEN 0 ELSE LLen(lists, SourceQ)

\* Consumer::is_stopped.
\* A consumer that never looks at its stopped flag.
never_stopped(c) == FALSE

is_stopped(c) == stopped[c]

\* MessageGuard::new: a guard starts Unacked.
NewGuard(id, payload) == [id |-> id, payload |-> payload, state |-> "Unacked"]

\* The payload BRPOPLPUSH moves: the tail of the source queue.
SourceTail == lists[SourceQ][Len(lists[SourceQ])]

\* What BRPOPLPUSH may answer.
Replies == {"data", "err", "nil"}

\* A next() that ends the stream when BRPOPLPUSH does not answer bulk data.
NextReturnNoneOnError(c, reply) ==
    IF is_stopped(c) \/ reply # "data" THEN [res |-> "None", msg |-> "", id |-> 0]
    ELSE IF lists[SourceQ] = <<>>
    THEN [res |-> "Blocked", id |-> 0, msg |-> ""]
    ELSE LET d == decode_message([kind |-> "Data", data |-> SourceTail])
         IN IF d.ok THEN [res |-> "SomeOk", id |-> d.id, msg |-> ""]
            ELSE [res |-> "SomeErr", id |-> 0, msg |-> d.err]

\* What Consumer::next returns.  reply is what BRPOPLPUSH source processing 0
\* answers: the moved payload ("data"), a transport error ("err") or a reply
\* that is not bulk data ("nil"); with reply "data" and an empty source queue
\* the call has not returned ("Blocked").
NextReturn(c, reply) ==
    IF is_stopped(c) THEN [res |-> "None", msg |-> "", id |-> 0]
    ELSE IF reply = "err"
    THEN [res |-> "SomeErr", id |-> 0,
          msg |-> "failed to fetch next message with brpoplpush"]
    ELSE IF reply = "nil"
    THEN [res |-> "SomeErr", id |-> 0,
          msg |-> "unknown result type for next message"]
    ELSE IF lists[SourceQ] = <<>>
    THEN [res |-> "Blocked", id |-> 0, msg |-> ""]
    ELSE LET d == decode_message([kind |-> "Data", data |-> SourceTail])
         IN IF d.ok THEN [res |-> "SomeOk", id |-> d.id, msg |-> ""]
            ELSE [res |-> "SomeErr", id |-> 0, msg |-> d.err]

\* Consumer::next.  A stopped consumer returns at once; otherwise the call
\* blocks in BRPOPLPUSH until the source queue holds a payload (reply "data")
\* or the command fails; a failed command moves nothing.
Next(c, reply) ==
    /\ Free(c)
    /\ IF is_stopped(c) \/ reply # "data"
       THEN UNCHANGED <<lists, guards, claimLog>>
       ELSE /\ lists[SourceQ] # <<>>
            /\ LET v == SourceTail
                   d == decode_message([kind |-> "Data", data |-> v])
               IN /\ lists' = RPopLPush(lists, SourceQ, ProcessingQ(c))
                  /\ claimLog' = [claimLog EXCEPT ![c] = Append(@, v)]
                  /\ guards' = IF d.ok
                               THEN [guards EXCEPT
                                       ![c] = Append(@, NewGuard(d.id, v))]
                               ELSE guards
    /\ UNCHANGED <<registry, pending, stopped, gc, pushLog, acked>>
    /\ UNCHANGED hbVars

\* -------------------------------------------------------------- MessageGuard
Cmd(op, key, arg) == [op |-> op, key |-> key, arg |-> arg]

\* The pipeline of MessageGuard::push without .atomic().
PushNotAtomic == FALSE

\* redis::pipe().atomic() of MessageGuard::push: a MULTI/EXEC transaction.
PushIsAtomic == TRUE

\* An ack that sends its LREM and leaves the guard's state alone.
ack_keeps_state(g, c) ==
    [guard |-> g,
     cmds |-> <<Cmd("LREM", ProcessingQ(c), g.payload)>>,
     atomic |-> TRUE]

\* MessageGuard::ack: the state is set, then LREM processing 1 payload.
guard_ack(g, c) ==
    [guard |-> [g EXCEPT !.state = "Acked"],
     cmds |-> <<Cmd("LREM", ProcessingQ(c), g.payload)>>,
     atomic |-> TRUE]

\* MessageGuard::push: the state is set, then LPUSH target payload and
\* LREM processing 1 payload in one pipeline.
guard_push(g, c, target) ==
    [guard |-> [g EXCEPT !.state = "Pushed"],
     cmds |-> <<Cmd("LPUSH", target, g.payload),
                Cmd("LREM", ProcessingQ(c), g.payload)>>,
     atomic |-> PushIsAtomic]

\* A reject that sends the pipeline of push(unacked queue) and leaves the
\* guard's state alone.
reject_keeps_state(g, c) ==
    [guard |-> g,
     cmds |-> <<Cmd("LPUSH", UnackedQ(c), g.payload),
                Cmd("LREM", ProcessingQ(c), g.payload)>>,
     atomic |-> TRUE]

\* MessageGuard::reject: the state is set, then push(unacked queue).
guard_reject(g, c) ==
    guard_push([g EXCEPT !.state = "Rejected"], c, UnackedQ(c))

\* query() of a pipeline on c's connection: a failed query changes nothing,
\* an atomic one executes every command in one step, any other executes its
\* first command and leaves the rest to be executed later.
QueryLists(call, fails) ==
    IF fails THEN lists
    ELSE IF call.atomic THEN ApplyAll(lists, call.cmds)
    ELSE ApplyCmd(lists, Head(call.cmds))

QueryPending(c, call, fails) ==
    IF fails \/ call.atomic THEN pending
    ELSE [pending EXCEPT ![c] = Tail(call.cmds)]

\* The model's cap on list entries: a call that adds an entry without
\* removing one is taken only below the cap.
Room(c, g) ==
    \/ Count(lists[ProcessingQ(c)], g.payload) > 0
    \/ TotalEntries < MaxEntries

\* What MessageGuard::ack returns: the reply of LREM.
AckReturn(c, i, fails) ==
    IF fails THEN [res |-> "Err", n |-> 0]
    ELSE [res |-> "Ok",
          n |-> LRemReply(lists, ProcessingQ(c), guards[c][i].payload)]

Ack(c, i, fails) ==
    /\ Free(c)
    /\ i \in 1..Len(guards[c])
    /\ LET g == guards[c][i]
           call == guard_ack(g, c)
       IN /\ guards' = [guards EXCEPT ![c][i] = call.guard]
          /\ lists' = QueryLists(call, fails)
          /\ pending' = QueryPending(c, call, fails)
          /\ acked' = acked \cup {g.payload}
    /\ UNCHANGED <<registry, stopped, gc, pushLog, claimLog>>
    /\ UNCHANGED hbVars

Reject(c, i, fails) ==
    /\ Free(c)
    /\ i \in 1..Len(guards[c])
    /\ LET g == guards[c][i]
           call == guard_reject(g, c)
       IN /\ Room(c, g)
          /\ guards' = [guards EXCEPT ![c][i] = call.guard]
          /\ lists' = QueryLists(call, fails)
          /\ pending' = QueryPending(c, call, fails)
    /\ UNCHANGED <<registry, stopped, gc, pushLog, claimLog, acked>>
    /\ UNCHANGED hbVars

Push(c, i, target, fails) ==
    /\ Free(c)
    /\ i \in 1..Len(guards[c])
    /\ LET g == guards[c][i]
           call == guard_push(g, c, target)
       IN /\ Room(c, g)
          /\ guards' = [guards EXCEPT ![c][i] = call.guard]
          /\ lists' = QueryLists(call, fails)
          /\ pending' = QueryPending(c, call, fails)
    /\ UNCHANGED <<registry, stopped, gc, pushLog, claimLog, acked>>
    /\ UNCHANGED hbVars

\* s without its i-th element.
RemoveAt(s, i) == SubSeq(s, 1, i - 1) \o SubSeq(s, i + 1, Len(s))

\* A Drop that has no reject: the guard goes away and no command is sent.
DropNoReject(c, i, fails) ==
    /\ Free(c)
    /\ i \in 1..Len(guards[c])
    /\ ~fails
    /\ guards' = [guards EXCEPT ![c] = RemoveAt(@, i)]
    /\ UNCHANGED <<lists, pending, registry, stopped, gc, pushLog, claimLog, acked>>
    /\ UNCHANGED hbVars

\* A Drop that rejects whatever the guard's state is.
DropAlwaysRejects(c, i, fails) ==
    /\ Free(c)
    /\ i \in 1..Len(guards[c])
    /\ LET g == guards[c][i]
           call == guard_reject(g, c)
       IN /\ Room(c, g)
          /\ lists' = QueryLists(call, fails)
          /\ pending' = QueryPending(c, call, fails)
    /\ guards' = [guards EXCEPT ![c] = RemoveAt(@, i)]
    /\ UNCHANGED <<registry, stopped, gc, pushLog, claimLog, acked>>
    /\ UNCHANGED hbVars

\* Drop for MessageGuard: a guard still Unacked rejects itself and ignores
\* the result; any other guard issues no command.
Drop(c, i, fails) ==
    /\ Free(c)
    /\ i \in 1..Len(guards[c])
    /\ LET g == guards[c][i]
           call == guard_reject(g, c)
       IN IF g.state = "Unacked"
          THEN /\ Room(c, g)
               /\ lists' = QueryLists(call, fails)
               /\ pending' = QueryPending(c, call, fails)
          ELSE /\ ~fails
               /\ UNCHANGED <<lists, pending>>
    /\ guards' = [guards EXCEPT ![c] = RemoveAt(@, i)]
    /\ UNCHANGED <<registry, stopped, gc, pushLog, claimLog, acked>>
    /\ UNCHANGED hbVars

\* ----------------------------------------------------------------- heartbeat
\* Bounds of the heartbeat model: the last clock reading, and the heartbeat
\* calls of one consumer.
MaxClock == 2
MaxBeats == 2

\* The ttl arguments, in ms.  Redis rejects SET ... PX 0.
Ttls == {0, 1}

\* now.duration_since(UNIX_EPOCH): a clock before the epoch gives ts = 0.
now_ms(t) == IF t < 0 THEN 0 ELSE t

\* A write that keeps the value of a field that exists (HSETNX).
HSetNx(h, field, v) ==
    [f \in DOMAIN h \cup {field} |-> IF f \in DOMAIN h THEN h[f] ELSE v]

\* HSET key field v on the hash h.
HSet(h, field, v) ==
    [f \in DOMAIN h \cup {field} |-> IF f = field THEN v ELSE h[f]]

\* HGET key field.
HGet(h, field) ==
    IF field \in DOMAIN h THEN [nil |-> FALSE, val |-> h[field]]
    ELSE [nil |-> TRUE, val |-> 0]

\* SET key v PX ttl at server time now.
SetPx(db, key, v, ttl, now) ==
    [k \in DOMAIN db \cup {key} |->
        IF k = key THEN [val |-> v, expires |-> now + ttl] ELSE db[k]]

\* GET key at server time now: an expired key is gone.
Get(db, key, now) ==
    IF key \in DOMAIN db /\ now < db[key].expires
    THEN [nil |-> FALSE, val |-> db[key].val]
    ELSE [nil |-> TRUE, val |-> 0]

\* Time passes.
Tick ==
    /\ clock < MaxClock
    /\ clock' = clock + 1
    /\ UNCHANGED <<lists, registry, pending, stopped, guards, gc, pushLog,
                   claimLog, acked, heartbeats, heartbeat_key, beat>>

\* Consumer::heartbeat, up to the first command of its pipeline, which is
\* not atomic: ts is read from the clock and HSET heartbeats name ts is
\* executed; SET heartbeat_key ts PX ttl is still to come.
Heartbeat(c, ttl, fails) ==
    /\ Free(c)
    /\ beat[c].calls < MaxBeats
    /\ LET ts == now_ms(clock)
       IN /\ heartbeats' = IF fails THEN heartbeats ELSE HSet(heartbeats, c, ts)
          /\ pending' = [pending EXCEPT
                           ![c] = <<Cmd("SET", c, [ts |-> ts, ttl |-> ttl])>>]
          /\ beat' = [beat EXCEPT ![c] = [calls |-> @.calls + 1, ts |-> ts,
                                          ok |-> ~fails, returned |-> FALSE]]
    /\ UNCHANGED <<lists, registry, stopped, guards, gc, pushLog, claimLog,
                   acked, clock, heartbeat_key>>

\* The second command of heartbeat's pipeline, after which the call returns
\* ts whatever the replies were.
HeartbeatSet(c, fails) ==
    /\ pending[c] # <<>>
    /\ Head(pending[c]).op = "SET"
    /\ LET arg == Head(pending[c]).arg
           done == ~fails /\ arg.ttl > 0
       IN /\ heartbeat_key' = IF done
                              THEN SetPx(heartbeat_key, c, arg.ts, arg.ttl, clock)
                              ELSE heartbeat_key
          /\ beat' = [beat EXCEPT ![c].ok = @ /\ done, ![c].returned = TRUE]
    /\ pending' = [pending EXCEPT ![c] = Tail(@)]
    /\ UNCHANGED <<lists, registry, stopped, guards, gc, pushLog, claimLog,
                   acked, clock, heartbeats>>

\* What the last heartbeat() of c returned.
HeartbeatReturn(c) == beat[c].ts

\* ------------------------------------------------------------------------ GC
\* The orders in which SMEMBERS may list the registry.
Orders(set) ==
    {s \in [1..Cardinality(set) -> set] :
        \A i, j \in 1..Cardinality(set) : s[i] = s[j] => i = j}

NoReturn == [op |-> "none", res |-> "", n |-> 0]

\* A collect that gives up at the first collect_one that fails.
CollectOneReturnAborts(g, res, n) ==
    IF g.mode = "one"
    THEN [gc |-> GcIdle,
          returns |-> [op |-> "collect_one", res |-> res, n |-> n]]
    ELSE IF res = "Err"
    THEN [gc |-> GcIdle, returns |-> [op |-> "collect", res |-> "Err", n |-> 0]]
    ELSE LET sum == g.sum + n
             rest == Tail(g.todo)
         IN IF rest = <<>>
            THEN [gc |-> GcIdle,
                  returns |-> [op |-> "collect", res |-> "Ok", n |-> sum]]
            ELSE [gc |-> [pc |-> "llen", mode |-> "all", todo |-> rest,
                          cur |-> Head(rest), n |-> 0, i |-> 0, total |-> 0,
                          sum |-> sum],
                  returns |-> NoReturn]

\* A collect that forgets the counts of its collect_one calls.
CollectOneReturnNoSum(g, res, n) ==
    IF g.mode = "one"
    THEN [gc |-> GcIdle,
          returns |-> [op |-> "collect_one", res |-> res, n |-> n]]
    ELSE LET rest == Tail(g.todo)
         IN IF rest = <<>>
            THEN [gc |-> GcIdle,
                  returns |-> [op |-> "collect", res |-> "Ok", n |-> g.sum]]
            ELSE [gc |-> [pc |-> "llen", mode |-> "all", todo |-> rest,
                          cur |-> Head(rest), n |-> 0, i |-> 0, total |-> 0,
                          sum |-> g.sum],
                  returns |-> NoReturn]

\* collect_one returned (res, n) for g.cur: to the caller, or into collect's
\* loop, which counts an error as 0 and goes on with the next name.
CollectOneReturn(g, res, n) ==
    IF g.mode = "one"
    THEN [gc |-> GcIdle,
          returns |-> [op |-> "collect_one", res |-> res, n |-> n]]
    ELSE LET sum == g.sum + (IF res = "Ok" THEN n ELSE 0)
             rest == Tail(g.todo)
         IN IF rest = <<>>
            THEN [gc |-> GcIdle,
                  returns |-> [op |-> "collect", res |-> "Ok", n |-> sum]]
            ELSE [gc |-> [pc |-> "llen", mode |-> "all", todo |-> rest,
                          cur |-> Head(rest), n |-> 0, i |-> 0, total |-> 0,
                          sum |-> sum],
                  returns |-> NoReturn]

\* collect_one, first command: n = LLEN unacked; 0 returns Ok(0).
CollectOneLLen(g, fails) ==
    LET n == LLen(lists, UnackedQ(g.cur))
    IN IF fails THEN CollectOneReturn(g, "Err", 0)
       ELSE IF n = 0 THEN CollectOneReturn(g, "Ok", 0)
       ELSE [gc |-> [g EXCEPT !.pc = "loop", !.n = n, !.i = 0, !.total = 0],
             returns |-> NoReturn]

\* A call of GC::collect_one(name), up to its LLEN.
GcCollectOne(name, fails) ==
    /\ gc.pc = "idle"
    /\ gc' = CollectOneLLen([GcIdle EXCEPT !.mode = "one", !.cur = name],
                            fails).gc
    /\ UNCHANGED <<lists, registry, pending, stopped, guards, pushLog,
                   claimLog, acked>>
    /\ UNCHANGED hbVars

\* A call of GC::collect(), up to its SMEMBERS.
CollectSMembers(order, fails) ==
    IF fails
    THEN [gc |-> GcIdle, returns |-> [op |-> "collect", res |-> "Err", n |-> 0]]
    ELSE IF order = <<>>
    THEN [gc |-> GcIdle, returns |-> [op |-> "collect", res |-> "Ok", n |-> 0]]
    ELSE [gc |-> [GcIdle EXCEPT !.pc = "llen", !.mode = "all",
                                !.todo = order, !.cur = Head(order)],
          returns |-> NoReturn]

GcCollect(order, fails) ==
    /\ gc.pc = "idle"
    /\ order \in Orders(registry)
    /\ gc' = CollectSMembers(order, fails).gc
    /\ UNCHANGED <<lists, registry, pending, stopped, guards, pushLog,
                   claimLog, acked>>
    /\ UNCHANGED hbVars

\* collect's next collect_one(name), up to its LLEN.
GcLLen(fails) ==
    /\ gc.pc = "llen"
    /\ gc' = CollectOneLLen(gc, fails).gc
    /\ UNCHANGED <<lists, registry, pending, stopped, guards, pushLog,
                   claimLog, acked>>
    /\ UNCHANGED hbVars

\* A loop that returns after its first move, whatever LLEN said.
CollectOneMoveOnce(g, fails) ==
    IF fails THEN CollectOneReturn(g, "Err", 0)
    ELSE IF lists[UnackedQ(g.cur)] = <<>>
    THEN CollectOneReturn(g, "Ok", g.total)
    ELSE CollectOneReturn(g, "Ok", g.total + 1)

\* A loop that goes on moving until the unacked queue is empty, whatever
\* LLEN said.
CollectOneMoveUntilEmpty(g, fails) ==
    IF fails THEN CollectOneReturn(g, "Err", 0)
    ELSE IF lists[UnackedQ(g.cur)] = <<>>
    THEN CollectOneReturn(g, "Ok", g.total)
    ELSE [gc |-> [g EXCEPT !.total = g.total + 1, !.i = g.i + 1],
          returns |-> NoReturn]

\* One iteration of collect_one's loop: RPOPLPUSH unacked processing.  An
\* error returns it, an empty unacked queue (nil) returns the total so far,
\* and the n-th move returns the total.
CollectOneMove(g, fails) ==
    IF fails THEN CollectOneReturn(g, "Err", 0)
    ELSE IF lists[UnackedQ(g.cur)] = <<>>
    THEN CollectOneReturn(g, "Ok", g.total)
    ELSE IF g.i + 1 = g.n THEN CollectOneReturn(g, "Ok", g.total + 1)
    ELSE [gc |-> [g EXCEPT !.total = g.total + 1, !.i = g.i + 1],
          returns |-> NoReturn]

\* A sweep that returns the unacked entries to the source queue.
GcMoveToSource(fails) ==
    /\ gc.pc = "loop"
    /\ gc' = CollectOneMove(gc, fails).gc
    /\ lists' = IF fails \/ lists[UnackedQ(gc.cur)] = <<>> THEN lists
                ELSE RPopLPush(lists, UnackedQ(gc.cur), SourceQ)
    /\ UNCHANGED <<registry, pending, stopped, guards, pushLog, claimLog,
                   acked>>
    /\ UNCHANGED hbVars

GcMove(fails) ==
    /\ gc.pc = "loop"
    /\ gc' = CollectOneMove(gc, fails).gc
    /\ lists' = IF fails \/ lists[UnackedQ(gc.cur)] = <<>> THEN lists
                ELSE RPopLPush(lists, UnackedQ(gc.cur), ProcessingQ(gc.cur))
    /\ UNCHANGED <<registry, pending, stopped, guards, pushLog, claimLog,
                   acked>>
    /\ UNCHANGED hbVars

\* One RPOPLPUSH unacked processing sent by the collect_one of another GC
\* instance that sweeps the same consumer.
RivalMove(name) ==
    /\ lists[UnackedQ(name)] # <<>>
    /\ lists' = RPopLPush(lists, UnackedQ(name), ProcessingQ(name))
    /\ UNCHANGED <<registry, pending, stopped, guards, gc, pushLog, claimLog,
                   acked>>
    /\ UNCHANGED hbVars

\* ---------------------------------------------------------- specifications
\* Jobs of the delivery model: one message and one job of another type.
CoreJobs == {Message(1), BrokenMessage}

\* Producer, two consumers claiming and settling payloads, and a GC sweeping
\* one consumer at a time, every command interleaved.
NextCore ==
    \/ \E job \in CoreJobs, fails \in BOOLEAN : ProducerPush(job, fails)
    \/ \E c \in Consumers, reply \in Replies : Next(c, reply)
    \/ \E c \in Consumers, i \in 1..MaxPush, fails \in BOOLEAN : Ack(c, i, fails)
    \/ \E c \in Consumers, i \in 1..MaxPush, fails \in BOOLEAN : Reject(c, i, fails)
    \/ \E c \in Consumers, i \in 1..MaxPush, t \in Targets, fails \in BOOLEAN :
            Push(c, i, t, fails)
    \/ \E c \in Consumers, i \in 1..MaxPush, fails \in BOOLEAN : Drop(c, i, fails)
    \/ \E name \in Consumers, fails \in BOOLEAN : GcCollectOne(name, fails)
    \/ \E fails \in BOOLEAN : GcMove(fails)

Spec == Init /\ [][NextCore]_vars

\* One producer and one consumer on the source queue, sending and receiving
\* messages with different ids; no GC runs.
FifoConsumer == "c1"
FifoJobs == {Message(id) : id \in Ids}
NextFifo ==
    \/ \E job \in FifoJobs, fails \in BOOLEAN : ProducerPush(job, fails)
    \/ \E reply \in Replies : Next(FifoConsumer, reply)
    \/ \E i \in 1..MaxPush, fails \in BOOLEAN : Ack(FifoConsumer, i, fails)
    \/ \E i \in 1..MaxPush, fails \in BOOLEAN : Reject(FifoConsumer, i, fails)
    \/ \E i \in 1..MaxPush, t \in Targets, fails \in BOOLEAN :
            Push(FifoConsumer, i, t, fails)
    \/ \E i \in 1..MaxPush, fails \in BOOLEAN : Drop(FifoConsumer, i, fails)

SpecFifo == Init /\ [][NextFifo]_vars

\* A consumer that registers, claims, settles and stops, next to a producer
\* and a GC sweeping it.
StopConsumer == "c1"
NextStop ==
    \/ \E job \in CoreJobs, fails \in BOOLEAN : ProducerPush(job, fails)
    \/ \E fails \in BOOLEAN : Register(StopConsumer, fails)
    \/ \E fails \in BOOLEAN : Stop(StopConsumer, fails)
    \/ \E reply \in Replies : Next(StopConsumer, reply)
    \/ \E i \in 1..MaxPush, fails \in BOOLEAN : Ack(StopConsumer, i, fails)
    \/ \E i \in 1..MaxPush, fails \in BOOLEAN : Reject(StopConsumer, i, fails)
    \/ \E i \in 1..MaxPush, t \in Targets, fails \in BOOLEAN :
            Push(StopConsumer, i, t, fails)
    \/ \E i \in 1..MaxPush, fails \in BOOLEAN : Drop(StopConsumer, i, fails)
    \/ \E fails \in BOOLEAN : GcCollectOne(StopConsumer, fails)
    \/ \E fails \in BOOLEAN : GcMove(fails)

SpecStop == Init /\ [][NextStop]_vars

\* The consumer of the mixed run: it registers before it claims anything,
\* settles its guards and stops, while a GC calls collect() and collect_one.
MixedConsumer == "c1"
RegisteredNext(c, reply) == c \in registry /\ Next(c, reply)
NextMixed ==
    \/ \E job \in CoreJobs, fails \in BOOLEAN : ProducerPush(job, fails)
    \/ \E fails \in BOOLEAN : Register(MixedConsumer, fails)
    \/ \E fails \in BOOLEAN : Stop(MixedConsumer, fails)
    \/ \E reply \in Replies : RegisteredNext(MixedConsumer, reply)
    \/ \E i \in 1..MaxPush, fails \in BOOLEAN : Ack(MixedConsumer, i, fails)
    \/ \E i \in 1..MaxPush, fails \in BOOLEAN : Reject(MixedConsumer, i, fails)
    \/ \E i \in 1..MaxPush, t \in Targets, fails \in BOOLEAN :
            Push(MixedConsumer, i, t, fails)
    \/ \E i \in 1..MaxPush, fails \in BOOLEAN : Drop(MixedConsumer, i, fails)
    \/ \E order \in Orders(registry), fails \in BOOLEAN : GcCollect(order, fails)
    \/ \E fails \in BOOLEAN : GcLLen(fails)
    \/ \E fails \in BOOLEAN : GcCollectOne(MixedConsumer, fails)
    \/ \E fails \in BOOLEAN : GcMove(fails)

SpecMixed == Init /\ [][NextMixed]_vars

\* A quiescent system: producer and consumers act only while no sweep is
\* running, so nobody writes to a queue between the commands of a
\* collect_one or a collect, and every command succeeds.
Quiescent(A) == gc.pc = "idle" /\ A
NextSweep ==
    \/ \E job \in CoreJobs : Quiescent(ProducerPush(job, FALSE))
    \/ \E c \in Consumers : Quiescent(Register(c, FALSE))
    \/ \E c \in Consumers : Quiescent(Next(c, "data"))
    \/ \E c \in Consumers, i \in 1..MaxPush : Quiescent(Ack(c, i, FALSE))
    \/ \E c \in Consumers, i \in 1..MaxPush : Quiescent(Reject(c, i, FALSE))
    \/ \E c \in Consumers, i \in 1..MaxPush : Quiescent(Drop(c, i, FALSE))
    \/ \E name \in Consumers : GcCollectOne(name, FALSE)
    \/ \E order \in Orders(registry) : GcCollect(order, FALSE)
    \/ GcLLen(FALSE)
    \/ GcMove(FALSE)

SpecSweep == Init /\ [][NextSweep]_vars


\* A consumer that sends heartbeats while time passes, and registers and
\* claims what a producer pushes between its heartbeats.
BeatConsumer == "c1"
BeatJob == Message(1)
NextBeat ==
    \/ Tick
    \/ \E ttl \in Ttls, fails \in BOOLEAN : Heartbeat(BeatConsumer, ttl, fails)
    \/ \E fails \in BOOLEAN : HeartbeatSet(BeatConsumer, fails)
    \/ ProducerPush(BeatJob, FALSE)
    \/ Register(BeatConsumer, FALSE)
    \/ Next(BeatConsumer, "data")

SpecBeat == Init /\ [][NextBeat]_vars


\* Two consumers that register, deregister and stop in any order, commands
\* failing or not, while they claim what a producer pushes.
NextRegistry ==
    \/ \E c \in Consumers, fails \in BOOLEAN : Register(c, fails)
    \/ \E c \in Consumers, fails \in BOOLEAN : Deregister(c, fails)
    \/ \E c \in Consumers, fails \in BOOLEAN : Stop(c, fails)
    \/ ProducerPush(BeatJob, FALSE)
    \/ \E c \in Consumers : Next(c, "data")

SpecRegistry == Init /\ [][NextRegistry]_vars


\* Two consumers sharing the source queue: each claims, acks and drops while
\* the producer pushes messages with different ids.
NextShare ==
    \/ \E job \in FifoJobs : ProducerPush(job, FALSE)
    \/ \E c \in Consumers, reply \in Replies : Next(c, reply)
    \/ \E c \in Consumers, i \in 1..MaxPush, fails \in BOOLEAN : Ack(c, i, fails)
    \/ \E c \in Consumers, i \in 1..MaxPush, fails \in BOOLEAN : Drop(c, i, fails)

SpecShare == Init /\ [][NextShare]_vars


\* Consumers that claim, ack and drop with every command succeeding: a guard
\* that is Acked here is one whose LREM was executed.
NextAck ==
    \/ \E job \in FifoJobs : ProducerPush(job, FALSE)
    \/ \E c \in Consumers : Next(c, "data")
    \/ \E c \in Consumers, i \in 1..MaxPush : Ack(c, i, FALSE)
    \/ \E c \in Consumers, i \in 1..MaxPush : Drop(c, i, FALSE)

SpecAck == Init /\ [][NextAck]_vars


\* A GC sweeping a consumer that keeps rejecting into its unacked queue,
\* while another GC instance sweeps the same consumer.  A GC inside its loop
\* goes on to its next command.
RivalConsumer == "c1"
NextRival ==
    \/ ProducerPush(BeatJob, FALSE)
    \/ Next(RivalConsumer, "data")
    \/ \E i \in 1..MaxPush : Reject(RivalConsumer, i, FALSE)
    \/ \E i \in 1..MaxPush : Drop(RivalConsumer, i, FALSE)
    \/ \E fails \in BOOLEAN : GcCollectOne(RivalConsumer, fails)
    \/ \E fails \in BOOLEAN : GcMove(fails)
    \/ RivalMove(RivalConsumer)

SpecRival ==
    Init /\ [][NextRival]_vars /\ WF_vars(\E fails \in BOOLEAN : GcMove(fails))


\* The quiescent system of the sweeps, with GC commands that may fail.
NextIsolate ==
    \/ Quiescent(ProducerPush(BeatJob, FALSE))
    \/ \E c \in Consumers : Quiescent(Register(c, FALSE))
    \/ \E c \in Consumers : Quiescent(Next(c, "data"))
    \/ \E c \in Consumers, i \in 1..MaxPush : Quiescent(Reject(c, i, FALSE))
    \/ \E name \in Consumers, fails \in BOOLEAN : GcCollectOne(name, fails)
    \/ \E order \in Orders(registry), fails \in BOOLEAN : GcCollect(order, fails)
    \/ \E fails \in BOOLEAN : GcLLen(fails)
    \/ \E fails \in BOOLEAN : GcMove(fails)

SpecIsolate == Init /\ [][NextIsolate]_vars


\* A consumer whose guards are pushed back onto the source queue for a
\* retry, next to the producer and a GC calling collect() and collect_one.
\* The model stops claiming after MaxPush claims.
FrameConsumer == "c1"
RequeueTargets == {SourceQ}
BoundedNext(c, reply) == Len(claimLog[c]) < MaxPush /\ Next(c, reply)
NextFrame ==
    \/ ProducerPush(BeatJob, FALSE)
    \/ Register(FrameConsumer, FALSE)
    \/ BoundedNext(FrameConsumer, "data")
    \/ \E i \in 1..MaxPush : Ack(FrameConsumer, i, FALSE)
    \/ \E i \in 1..MaxPush, fails \in BOOLEAN : Reject(FrameConsumer, i, fails)
    \/ \E i \in 1..MaxPush, t \in RequeueTargets :
            Push(FrameConsumer, i, t, FALSE)
    \/ \E i \in 1..MaxPush, fails \in BOOLEAN : Drop(FrameConsumer, i, fails)
    \/ \E order \in Orders(registry) : GcCollect(order, FALSE)
    \/ GcLLen(FALSE)
    \/ GcCollectOne(FrameConsumer, FALSE)
    \/ GcMove(FALSE)

SpecFrame == Init /\ [][NextFrame]_vars

\* One consumer and the calls on its guards, every command failing or not:
\* ack(), reject(), push(q) and the drop of the guard.
GuardConsumer == "c1"
NextGuard ==
    \/ ProducerPush(BeatJob, FALSE)
    \/ Next(GuardConsumer, "data")
    \/ \E i \in 1..MaxPush, fails \in BOOLEAN : Ack(GuardConsumer, i, fails)
    \/ \E i \in 1..MaxPush, fails \in BOOLEAN : Reject(GuardConsumer, i, fails)
    \/ \E i \in 1..MaxPush, t \in Targets, fails \in BOOLEAN :
            Push(GuardConsumer, i, t, fails)
    \/ \E i \in 1..MaxPush, fails \in BOOLEAN : Drop(GuardConsumer, i, fails)

SpecGuard == Init /\ [][NextGuard]_vars

\* A consumer that claims two different messages and rejects them, before
\* and during the sweeps of a GC calling collect_one; no command fails.
OrderConsumer == "c1"
NextOrder ==
    \/ \E job \in FifoJobs : ProducerPush(job, FALSE)
    \/ Next(OrderConsumer, "data")
    \/ \E i \in 1..MaxPush : Reject(OrderConsumer, i, FALSE)
    \/ \E i \in 1..MaxPush : Drop(OrderConsumer, i, FALSE)
    \/ GcCollectOne(OrderConsumer, FALSE)
    \/ GcMove(FALSE)

SpecOrder == Init /\ [][NextOrder]_vars

\* The delivery model with no failing command, consumers that keep calling
\* next() and a GC that keeps sweeping.
NextLive ==
    \/ \E job \in CoreJobs : ProducerPush(job, FALSE)
    \/ \E c \in Consumers : Next(c, "data")
    \/ \E c \in Consumers, i \in 1..MaxPush : Ack(c, i, FALSE)
    \/ \E c \in Consumers, i \in 1..MaxPush : Reject(c, i, FALSE)
    \/ \E c \in Consumers, i \in 1..MaxPush, t \in Targets : Push(c, i, t, FALSE)
    \/ \E c \in Consumers, i \in 1..MaxPush : Drop(c, i, FALSE)
    \/ \E name \in Consumers : GcCollectOne(name, FALSE)
    \/ GcMove(FALSE)

SpecLive ==
    /\ Init
    /\ [][NextLive]_vars
    /\ \A c \in Consumers : WF_vars(Next(c, "data"))
    /\ \A c \in Consumers : WF_vars(GcCollectOne(c, FALSE))
    /\ WF_vars(GcMove(FALSE))

\* ------------------------------------------------------------------ helpers
\* The payloads consumer c obtained from BRPOPLPUSH, in order.
ClaimsBy(c, log) == log[c]

\* c claimed exactly vs and no other consumer claimed anything.
OnlyClaims(c, vs) ==
    claimLog = [d \in Consumers |-> IF d = c THEN vs ELSE <<>>]

\* new is old without one entry equal to v.
OneFewer(old, new, v) ==
    \E k \in 1..Len(old) : old[k] = v /\ new = RemoveAt(old, k)

\* new is old without one entry equal to v, or old itself when it holds none.
LostOneIfAny(old, new, v) ==
    IF Count(old, v) = 0 THEN new = old ELSE OneFewer(old, new, v)

\* Every list but those under the given keys is the same after the step.
OnlyChanged(ks) == \A k \in Keys \ ks : lists'[k] = lists[k]

Unacked(c) == {i \in 1..Len(guards[c]) : guards[c][i].state = "Unacked"}

Reverse(s) == [k \in 1..Len(s) |-> s[Len(s) + 1 - k]]

\* The payloads BRPOPLPUSH moved, in order.
Claimed == claimLog[FifoConsumer]

\* How often v was moved out of the source queue, over all consumers.
RECURSIVE ClaimCountIn(_, _)
ClaimCountIn(cs, v) ==
    IF cs = {} THEN 0
    ELSE LET c == CHOOSE x \in cs : TRUE
         IN Count(claimLog[c], v) + ClaimCountIn(cs \ {c}, v)

ClaimCount(v) == ClaimCountIn(Consumers, v)

Decodable(v) == decode_message([kind |-> "Data", data |-> v]).ok

\* ------------------------------------------------------------------ claims
\* C1 (no-loss): in every reachable state, failed commands included, a
\* payload that was pushed and that no ack() was ever called with is present
\* in the lists (source, processing, unacked or the push target) at least
\* as often as it was pushed; and no step that changes a list makes the
\* copies of a payload fewer except a call of ack() on a guard of that
\* payload, which removes at most one.
C1_NoLoss ==
    /\ [](\A v \in Payloads :
            v \notin acked => Copies(v) >= Count(pushLog, v))
    /\ [][lists' # lists => \A v \in Payloads :
            Copies(v)' < Copies(v) =>
               /\ Copies(v)' = Copies(v) - 1
               /\ \E c \in Consumers : \E i \in 1..Len(guards[c]) :
                     /\ guards[c][i].payload = v
                     /\ \E f \in BOOLEAN : Ack(c, i, f)]_vars

\* Two instances of a payload were pushed and none was acked: one sits in a
\* processing queue with no guard left, the other was re-routed to the retry
\* queue, and the GC is in the middle of a sweep.
C1_Witness ==
    \E c \in Consumers, v \in Payloads :
        /\ Count(pushLog, v) = 2
        /\ acked = {}
        /\ gc.pc = "loop"
        /\ Count(lists[ProcessingQ(c)], v) = 1
        /\ Count(lists[RetryQ], v) = 1
        /\ guards[c] = <<>>

\* C2 (single home), as claimed: the copies of a payload over all lists
\* never exceed the number of times it was pushed, and a payload that was
\* not acked has exactly as many homes as it was pushed.
C2_SingleHome ==
    \A v \in Payloads :
        /\ Copies(v) <= Count(pushLog, v)
        /\ v \notin acked => Copies(v) = Count(pushLog, v)

\* C3 (drop rescues): when a guard that is still Unacked is dropped and its
\* reject is executed, the unacked queue gains exactly one entry, the
\* payload, at its head; the processing queue loses one occurrence of the
\* payload (none is left when it held one); no other list changes and the
\* guard is gone, so the reject cannot run a second time.
C3_DropRescues ==
    [][\A c \in Consumers : \A i \in Unacked(c) :
         Drop(c, i, FALSE) =>
            LET v == guards[c][i].payload
            IN /\ lists'[UnackedQ(c)] = <<v>> \o lists[UnackedQ(c)]
               /\ LostOneIfAny(lists[ProcessingQ(c)], lists'[ProcessingQ(c)], v)
               /\ Count(lists[ProcessingQ(c)], v) = 1
                    => Count(lists'[ProcessingQ(c)], v) = 0
               /\ OnlyChanged({UnackedQ(c), ProcessingQ(c)})
               /\ Len(guards'[c]) = Len(guards[c]) - 1]_vars

\* A single pushed payload was claimed and its guard dropped without any
\* explicit call: it is the head of the unacked queue and nowhere else.
C3_Witness ==
    \E c \in Consumers, v \in Payloads :
        /\ pushLog = <<v>>
        /\ OnlyClaims(c, <<v>>)
        /\ guards[c] = <<>>
        /\ v \notin acked
        /\ lists[UnackedQ(c)] = <<v>>
        /\ lists[ProcessingQ(c)] = <<>>
        /\ decode_message([kind |-> "Data", data |-> v]).ok

\* C5 (ack): an executed ack() removes at most one occurrence of the guard's
\* payload from the processing queue, exactly as many as the count it
\* returns (0 or 1, 1 whenever the queue held the payload), and leaves the
\* source queue, every unacked queue, the registry and every other list
\* unchanged; on a processing queue holding just the payload it leaves the
\* processing and the unacked queue empty, and dropping a guard that was
\* acked changes no list.
C5_Ack ==
    [][\A c \in Consumers : \A i \in 1..Len(guards[c]) :
         /\ Ack(c, i, FALSE) =>
              LET v == guards[c][i].payload
                  n == AckReturn(c, i, FALSE).n
                  P == lists[ProcessingQ(c)]
              IN /\ n \in {0, 1}
                 /\ n = 1 <=> Count(P, v) > 0
                 /\ Count(lists'[ProcessingQ(c)], v) = Count(P, v) - n
                 /\ LostOneIfAny(P, lists'[ProcessingQ(c)], v)
                 /\ OnlyChanged({ProcessingQ(c)})
                 /\ registry' = registry
                 /\ (P = <<v>> /\ lists[UnackedQ(c)] = <<>>)
                      => (lists'[ProcessingQ(c)] = <<>> /\ lists'[UnackedQ(c)] = <<>>)
         /\ (guards[c][i].state = "Acked" /\ \E f \in BOOLEAN : Drop(c, i, f))
              => lists' = lists]_vars

\* One payload was pushed, claimed and acked, and the guard was dropped:
\* every list is empty.
C5_Witness ==
    \E c \in Consumers, v \in Payloads :
        /\ pushLog = <<v>>
        /\ OnlyClaims(c, <<v>>)
        /\ v \in acked
        /\ guards[c] = <<>>
        /\ \A k \in Keys : lists[k] = <<>>

\* C6 (reject): an executed reject() puts the guard's payload at the head of
\* the unacked queue, which gains exactly that one entry, and removes one
\* occurrence of it from the processing queue (when it holds one); the guard
\* is no longer Unacked afterwards, and the drop of a guard that is not
\* Unacked changes no list, so no second copy reaches the unacked queue.
C6_Reject ==
    [][\A c \in Consumers : \A i \in 1..Len(guards[c]) :
         /\ Reject(c, i, FALSE) =>
              LET v == guards[c][i].payload
                  P == lists[ProcessingQ(c)]
              IN /\ lists'[UnackedQ(c)] = <<v>> \o lists[UnackedQ(c)]
                 /\ LostOneIfAny(P, lists'[ProcessingQ(c)], v)
                 /\ Count(P, v) > 0 =>
                       Count(lists'[ProcessingQ(c)], v) = Count(P, v) - 1
                 /\ OnlyChanged({UnackedQ(c), ProcessingQ(c)})
                 /\ guards'[c][i].state # "Unacked"
         /\ (guards[c][i].state # "Unacked" /\ \E f \in BOOLEAN : Drop(c, i, f))
              => lists' = lists]_vars

\* One payload was pushed, claimed and rejected, and the guard, no longer
\* Unacked, is still alive: the payload is in the unacked queue only.
C6_Witness ==
    \E c \in Consumers, v \in Payloads :
        /\ pushLog = <<v>>
        /\ OnlyClaims(c, <<v>>)
        /\ Len(guards[c]) = 1
        /\ guards[c][1].state # "Unacked"
        /\ lists[UnackedQ(c)] = <<v>>
        /\ lists[ProcessingQ(c)] = <<>>
        /\ lists[RetryQ] = <<>>

\* C7 (atomic re-route): no reachable state shows a push of which only some
\* commands were executed (no command of a transaction is outstanding on
\* any connection), and an executed push(target), a step that changes the
\* lists, puts the payload at the head of target and removes one occurrence
\* from the processing queue in the same step, so the payload is never
\* absent from both.
C7_AtomicPush ==
    /\ [](\A c \in Consumers : pending[c] = <<>>)
    /\ [][lists' # lists =>
          \A c \in Consumers : \A i \in 1..Len(guards[c]) : \A t \in Targets :
            Push(c, i, t, FALSE) =>
               LET v == guards[c][i].payload
                   P == lists[ProcessingQ(c)]
               IN /\ lists'[t] = <<v>> \o lists[t]
                  /\ LostOneIfAny(P, lists'[ProcessingQ(c)], v)
                  /\ Count(P, v) = 1 => Count(lists'[ProcessingQ(c)], v) = 0
                  /\ OnlyChanged({t, ProcessingQ(c)})
                  /\ Copies(v)' >= Copies(v)]_vars

\* A claimed payload was re-routed: it is in the retry queue, in no
\* processing queue, and its guard is Pushed.
C7_Witness ==
    \E c \in Consumers, v \in Payloads :
        /\ pushLog = <<v>>
        /\ lists[RetryQ] = <<v>>
        /\ lists[ProcessingQ(c)] = <<>>
        /\ Len(guards[c]) = 1
        /\ guards[c][1].state = "Pushed"

\* C8 (claim): a next() of a consumer that is not stopped which returns a
\* guard removed exactly the tail of the source queue and put it at the head
\* of the processing queue in that one step; the source queue is one
\* shorter, the processing queue one longer, no other list changed, and the
\* new guard is Unacked and holds that payload and its decoded message.
C8_Next ==
    [][\A c \in Consumers :
         (Next(c, "data") /\ ~is_stopped(c)
            /\ NextReturn(c, "data").res = "SomeOk") =>
            LET S == lists[SourceQ]
                v == S[Len(S)]
            IN /\ lists'[SourceQ] = SubSeq(S, 1, Len(S) - 1)
               /\ lists'[ProcessingQ(c)] = <<v>> \o lists[ProcessingQ(c)]
               /\ Len(lists'[SourceQ]) = Len(S) - 1
               /\ Len(lists'[ProcessingQ(c)]) = Len(lists[ProcessingQ(c)]) + 1
               /\ OnlyChanged({SourceQ, ProcessingQ(c)})
               /\ guards'[c] = Append(guards[c],
                     [id |-> NextReturn(c, "data").id, payload |-> v,
                      state |-> "Unacked"])
               /\ encode_message(Message(NextReturn(c, "data").id)) = v]_vars

\* Two different payloads were pushed and the older one was claimed: the
\* newer is still in the source queue, the older in the processing queue.
C8_Witness ==
    \E c \in Consumers :
        /\ Len(pushLog) = 2
        /\ pushLog[1] # pushLog[2]
        /\ OnlyClaims(c, <<pushLog[1]>>)
        /\ lists[SourceQ] = <<pushLog[2]>>
        /\ lists[ProcessingQ(c)] = <<pushLog[1]>>
        /\ Len(guards[c]) = 1
        /\ guards[c][1].state = "Unacked"
        /\ guards[c][1].payload = pushLog[1]

\* C4 (re-delivery), as claimed: with no failing command, consumers that
\* keep calling next() and a GC that keeps sweeping, a payload that sits in
\* the processing queue of a consumer that is not stopped and holds no guard
\* for it (it was rejected and the GC moved it back) is handed out by a
\* next() again: the number of claims of that payload grows.
C4_Redelivery ==
    \A c \in Consumers : \A v \in Payloads : \A k \in 0..MaxPush :
        (/\ Decodable(v)
         /\ ~stopped[c]
         /\ Count(lists[ProcessingQ(c)], v) > 0
         /\ \A i \in 1..Len(guards[c]) : guards[c][i].payload # v
         /\ ClaimCount(v) = k)
        ~> (ClaimCount(v) > k)

\* C9 (FIFO): with one producer and one consumer on the source queue, the
\* payloads next() obtained, in order, are the payloads Producer.push sent,
\* in order, up to the number obtained so far.
C9_Fifo ==
    /\ Len(Claimed) <= Len(pushLog)
    /\ Claimed = SubSeq(pushLog, 1, Len(Claimed))

\* Two different messages were pushed and both were returned by next().
C9_Witness ==
    /\ Len(pushLog) = 2
    /\ pushLog[1] # pushLog[2]
    /\ Len(Claimed) = 2
    /\ Len(guards[FifoConsumer]) = 2
    /\ guards[FifoConsumer][1].payload = pushLog[1]
    /\ guards[FifoConsumer][2].payload = pushLog[2]

\* C10 (stop): once a consumer's stopped flag is set, next() returns None
\* whatever BRPOPLPUSH would answer, the flag stays set, and no step claims
\* a payload for that consumer or lets its next() change a list or a guard;
\* and when the consumer stopped after its first claim and the guard of
\* that claim is dropped Unacked, the payload becomes the only entry of the
\* unacked queue, the processing queue is empty, the consumer has claimed
\* exactly one payload and every later push is still in the source queue.
C10_Stop ==
    /\ [](\A c \in Consumers : stopped[c] =>
            \A reply \in Replies : NextReturn(c, reply).res = "None")
    /\ [][\A c \in Consumers : stopped[c] =>
            /\ stopped'[c]
            /\ ClaimsBy(c, claimLog') = ClaimsBy(c, claimLog)
            /\ (\E reply \in Replies : Next(c, reply)) =>
                    (lists' = lists /\ guards' = guards)]_vars
    /\ [][\A c \in Consumers :
            (/\ stopped[c]
             /\ \E v \in Payloads : OnlyClaims(c, <<v>>)
             /\ Len(guards[c]) = 1
             /\ guards[c][1].state = "Unacked"
             /\ lists[UnackedQ(c)] = <<>>
             /\ Drop(c, 1, FALSE)) =>
                /\ lists'[UnackedQ(c)] = <<pushLog[1]>>
                /\ lists'[ProcessingQ(c)] = <<>>
                /\ Len(ClaimsBy(c, claimLog')) = 1
                /\ lists'[SourceQ] = Reverse(Tail(pushLog))]_vars

\* Two payloads were pushed, the consumer claimed the first and stopped, and
\* the guard was dropped: the first is in the unacked queue, the second is
\* still in the source queue.
C10_Witness ==
    \E c \in Consumers :
        /\ stopped[c]
        /\ Len(pushLog) = 2
        /\ OnlyClaims(c, <<pushLog[1]>>)
        /\ guards[c] = <<>>
        /\ pushLog[1] \notin acked
        /\ lists[UnackedQ(c)] = <<pushLog[1]>>
        /\ lists[ProcessingQ(c)] = <<>>
        /\ lists[SourceQ] = <<pushLog[2]>>

C12_CollectAfterStop ==
    \A c \in Consumers : \A order \in Orders(registry) :
        (/\ gc.pc = "idle"
         /\ stopped[c]
         /\ claimLog[c] # <<>>
         /\ lists[UnackedQ(c)] # <<>>)
        => LET call == CollectSMembers(order, FALSE)
           IN /\ \E k \in 1..Len(call.gc.todo) : call.gc.todo[k] = c
              /\ call.returns = NoReturn

\* The state of a GC that was just asked to collect_one(name).
OneCall(name) == [GcIdle EXCEPT !.mode = "one", !.cur = name]

\* C13 (collect_one, quiescent): a collect_one(name) on an empty unacked
\* queue returns Ok(0) at once and leaves the GC idle, on any other it reads
\* the length and starts moving; while it moves, the entries still in the
\* unacked queue are the length read less the moves made; every move takes
\* the tail of the unacked queue to the head of the processing queue and
\* changes nothing else; and the move that returns leaves the unacked queue
\* empty and returns Ok(n) with n the length read, the number of entries
\* the processing queue grew by.  The registry is not consulted.
C13_CollectOne ==
    /\ [](\A name \in Consumers : gc.pc = "idle" =>
            LET call == CollectOneLLen(OneCall(name), FALSE)
                n == Len(lists[UnackedQ(name)])
            IN IF n = 0
               THEN /\ call.gc = GcIdle
                    /\ call.returns = [op |-> "collect_one", res |-> "Ok", n |-> 0]
               ELSE /\ call.gc.pc = "loop" /\ call.gc.n = n /\ call.gc.i = 0
                    /\ call.returns = NoReturn)
    /\ []((gc.pc = "loop" /\ gc.mode = "one") =>
            /\ gc.total = gc.i
            /\ gc.i < gc.n
            /\ Len(lists[UnackedQ(gc.cur)]) = gc.n - gc.i)
    /\ [][(gc.mode = "one" /\ GcMove(FALSE)) =>
            LET U == lists[UnackedQ(gc.cur)]
                P == lists[ProcessingQ(gc.cur)]
                ret == CollectOneMove(gc, FALSE).returns
            IN /\ lists'[UnackedQ(gc.cur)] = SubSeq(U, 1, Len(U) - 1)
               /\ lists'[ProcessingQ(gc.cur)] = <<U[Len(U)]>> \o P
               /\ OnlyChanged({UnackedQ(gc.cur), ProcessingQ(gc.cur)})
               /\ registry' = registry
               /\ IF gc'.pc = "idle"
                  THEN /\ ret = [op |-> "collect_one", res |-> "Ok", n |-> gc.n]
                       /\ lists'[UnackedQ(gc.cur)] = <<>>
                       /\ Len(lists'[ProcessingQ(gc.cur)]) - ret.n = Len(P) - gc.i
                  ELSE /\ ret = NoReturn
                       /\ gc'.n = gc.n
                       /\ Len(lists'[ProcessingQ(gc.cur)]) - gc'.i = Len(P) - gc.i]_vars

\* A collect_one of a consumer that is not registered has moved the first of
\* two entries of its unacked queue and is about to move the second.
C13_Witness ==
    /\ gc.pc = "loop" /\ gc.mode = "one"
    /\ gc.n = 2 /\ gc.i = 1
    /\ gc.cur \notin registry
    /\ Len(lists[UnackedQ(gc.cur)]) = 1
    /\ Len(lists[ProcessingQ(gc.cur)]) = 1

\* The names collect() has still to sweep, the one in hand included.
TodoNames(g) == {g.todo[k] : k \in 1..Len(g.todo)}

UnackedQs(names) == {UnackedQ(c) : c \in names}
ProcessingQs(names) == {ProcessingQ(c) : c \in names}

\* What collect() has moved so far.
Moved(g) == g.sum + g.total

\* What collect() will have moved when it returns, if nobody else writes:
\* what it has moved and what its remaining names hold unacked.
Outstanding(g, db) == Moved(g) + SumLen(db, UnackedQs(TodoNames(g)))

\* The step collect() takes in GC state g.
CollectStep(g) ==
    IF g.pc = "llen" THEN CollectOneLLen(g, FALSE) ELSE CollectOneMove(g, FALSE)

AllSwept == \A c \in registry : lists[UnackedQ(c)] = <<>>

\* C14 (collect, quiescent): collect() takes exactly the names of the
\* registry, with nothing moved yet, and returns Ok(0) at once when the
\* registry is empty; names it has finished hold nothing unacked; each of its
\* steps keeps "moved so far + unacked of the names left" and "processing of
\* the registered names - moved so far", with the returned number as moved
\* so far on return, and touches no queue of an unregistered consumer, nor
\* the source or a retry queue; on return every registered unacked queue is
\* empty; and with every registered unacked queue empty it changes no list
\* and returns what it had moved, 0 from the start, so a second collect()
\* right after a sweep returns 0.
C14_Collect ==
    /\ [](gc.pc = "idle" => \A order \in Orders(registry) :
            LET call == CollectSMembers(order, FALSE)
            IN IF registry = {}
               THEN /\ call.gc = GcIdle
                    /\ call.returns = [op |-> "collect", res |-> "Ok", n |-> 0]
               ELSE /\ call.returns = NoReturn
                    /\ TodoNames(call.gc) = registry
                    /\ Moved(call.gc) = 0
                    /\ Outstanding(call.gc, lists)
                          = SumLen(lists, UnackedQs(registry)))
    /\ [](gc.mode = "all" =>
            /\ TodoNames(gc) \subseteq registry
            /\ gc.cur = Head(gc.todo)
            /\ \A c \in registry \ TodoNames(gc) : lists[UnackedQ(c)] = <<>>
            /\ AllSwept =>
                  /\ gc.pc = "llen"
                  /\ CollectStep(gc).returns
                        \in {NoReturn, [op |-> "collect", res |-> "Ok", n |-> gc.sum]})
    /\ [][(gc.mode = "all" /\ (GcLLen(FALSE) \/ GcMove(FALSE))) =>
            LET out == CollectStep(gc)
                moved == IF gc'.pc = "idle" THEN out.returns.n ELSE Moved(gc')
                left == IF gc'.pc = "idle" THEN 0
                        ELSE SumLen(lists', UnackedQs(TodoNames(gc')))
            IN /\ moved + left = Outstanding(gc, lists)
               /\ SumLen(lists', ProcessingQs(registry)) - moved
                     = SumLen(lists, ProcessingQs(registry)) - Moved(gc)
               /\ OnlyChanged(UnackedQs(registry) \cup ProcessingQs(registry))
               /\ registry' = registry
               /\ AllSwept => lists' = lists
               /\ IF gc'.pc = "idle"
                  THEN /\ out.returns.op = "collect" /\ out.returns.res = "Ok"
                       /\ AllSwept'
                  ELSE out.returns = NoReturn]_vars

\* collect() has swept one entry of the first registered consumer and is
\* moving the entry of the second.
C14_Witness ==
    /\ gc.mode = "all" /\ gc.pc = "loop"
    /\ registry = Consumers
    /\ Len(gc.todo) = 1
    /\ gc.sum = 1 /\ gc.n = 1
    /\ Len(lists[UnackedQ(gc.cur)]) = 1

\* The source queue and every consumer's processing and unacked queue.
QueueKeys == {SourceQ} \cup ProcessingQs(Consumers) \cup UnackedQs(Consumers)

\* C15 (GC safety under concurrency), as claimed: with collect() and
\* collect_one() interleaved command by command with next, ack, reject, push
\* and drop, a payload that no ack() was called with is in the lists at least
\* as often as it was pushed, and its copies over the source, processing and
\* unacked queues are never more than the times it was pushed.
C15_GcSafety ==
    \A v \in Payloads : v \notin acked =>
        /\ CountIn(lists, Keys, v) >= Count(pushLog, v)
        /\ CountIn(lists, QueueKeys, v) <= Count(pushLog, v)

\* The payload of a job that does not decode as a Message.
BrokenPayload == encode_message(BrokenMessage)

\* C16 (decode error): a next() of a consumer that is not stopped which
\* claims a payload that does not decode as the message type returns
\* Some(Err) with the decoder's message and creates no guard; the payload
\* is taken from the tail of the source queue to the head of the processing
\* queue and no other list changes; and in every state the processing queue
\* holds such a payload as often as the consumer claimed it, while the
\* unacked queue and the retry queue never hold it.
C16_DecodeError ==
    /\ [][\A c \in Consumers :
            (Next(c, "data") /\ ~is_stopped(c) /\ SourceTail = BrokenPayload) =>
               LET S == lists[SourceQ]
                   ret == NextReturn(c, "data")
               IN /\ ret.res = "SomeErr"
                  /\ ret.msg = "failed to decode value with msgpack"
                  /\ guards' = guards
                  /\ lists'[ProcessingQ(c)]
                        = <<BrokenPayload>> \o lists[ProcessingQ(c)]
                  /\ lists'[SourceQ] = SubSeq(S, 1, Len(S) - 1)
                  /\ OnlyChanged({SourceQ, ProcessingQ(c)})]_vars
    /\ [](\A c \in Consumers :
            /\ Count(lists[ProcessingQ(c)], BrokenPayload)
                  = Count(claimLog[c], BrokenPayload)
            /\ Count(lists[UnackedQ(c)], BrokenPayload) = 0
            /\ Count(lists[RetryQ], BrokenPayload) = 0
            /\ \A i \in 1..Len(guards[c]) : guards[c][i].payload # BrokenPayload)

\* A payload that does not decode was claimed and sits in the processing
\* queue with no guard, while a later message was claimed and rejected and
\* the GC has returned it.
C16_Witness ==
    \E c \in Consumers :
        /\ claimLog[c] = <<BrokenPayload, encode_message(Message(1))>>
        /\ lists[ProcessingQ(c)] = <<encode_message(Message(1)), BrokenPayload>>
        /\ lists[UnackedQ(c)] = <<>>
        /\ Len(guards[c]) = 1
        /\ guards[c][1].state = "Pushed"

\* C17 (transport error): for a consumer that is not stopped, whatever the
\* queues hold, a BRPOPLPUSH that fails or answers something that is not
\* bulk data makes next() return Some(Err), never None; and the call
\* changes no list, creates no guard and claims nothing.
C17_TransportError ==
    /\ [](\A c \in Consumers : \A reply \in {"err", "nil"} :
            ~is_stopped(c) =>
               /\ NextReturn(c, reply).res = "SomeErr"
               /\ NextReturn(c, reply).msg =
                     IF reply = "err"
                     THEN "failed to fetch next message with brpoplpush"
                     ELSE "unknown result type for next message")
    /\ [][\A c \in Consumers : \A reply \in {"err", "nil"} :
            Next(c, reply) =>
               /\ lists' = lists
               /\ guards' = guards
               /\ claimLog' = claimLog]_vars

\* A registered consumer that is not stopped and has claimed nothing faces a
\* source queue that holds a payload: the state a failed pop leaves as it
\* found it.
C17_Witness ==
    \E c \in Consumers :
        /\ c \in registry /\ ~stopped[c]
        /\ lists[SourceQ] = <<encode_message(Message(1))>>
        /\ lists[ProcessingQ(c)] = <<>>
        /\ claimLog[c] = <<>>
        /\ guards[c] = <<>>
        /\ NextReturn(c, "err").res = "SomeErr"

\* The heartbeat steps of consumer c.
HeartbeatStep(c) ==
    \/ \E ttl \in Ttls, fails \in BOOLEAN : Heartbeat(c, ttl, fails)
    \/ \E fails \in BOOLEAN : HeartbeatSet(c, fails)

\* C18 (heartbeat): when a heartbeat of consumer c returns ts and both its
\* writes succeeded, the heartbeat map holds one entry for c, with value
\* ts, and GET of c's heartbeat key answers ts, on the first heartbeat and
\* on every later one; the value returned is the clock's reading at the call
\* (0 for a clock before the epoch); before the first heartbeat of c its
\* heartbeat key is absent; and no step of a heartbeat changes a list, the
\* registry, a guard or the stopped flag.
C18_Heartbeat ==
    /\ [][\A c \in Consumers :
            ((\E fails \in BOOLEAN : HeartbeatSet(c, fails)) /\ beat'[c].ok) =>
               LET ts == HeartbeatReturn(c)'
               IN /\ ts = Head(pending[c]).arg.ts
                  /\ HGet(heartbeats', c) = [nil |-> FALSE, val |-> ts]
                  /\ Cardinality({f \in DOMAIN heartbeats' : f = c}) = 1
                  /\ Get(heartbeat_key', c, clock') = [nil |-> FALSE, val |-> ts]]_vars
    /\ [][\A c \in Consumers : \A ttl \in Ttls, fails \in BOOLEAN :
            Heartbeat(c, ttl, fails) =>
               /\ beat'[c].ts = now_ms(clock)
               /\ beat'[c].ts >= 0]_vars
    /\ [](\A c \in Consumers :
            beat[c].calls = 0 =>
               /\ c \notin DOMAIN heartbeat_key
               /\ Get(heartbeat_key, c, clock).nil)
    /\ [][\A c \in Consumers : HeartbeatStep(c) =>
            /\ lists' = lists
            /\ registry' = registry
            /\ guards' = guards
            /\ stopped' = stopped]_vars

\* The consumer's second heartbeat returned a later timestamp than the first
\* wrote, both of its writes succeeded, and the map and the key hold it,
\* while the consumer is registered and holds a claimed payload.
C18_Witness ==
    \E c \in Consumers :
        /\ beat[c].calls = 2 /\ beat[c].returned /\ beat[c].ok
        /\ beat[c].ts = MaxClock
        /\ heartbeats[c] = beat[c].ts
        /\ Get(heartbeat_key, c, clock) = [nil |-> FALSE, val |-> beat[c].ts]
        /\ c \in registry
        /\ lists[ProcessingQ(c)] # <<>>

\* C19 (registry): a register() that succeeds adds the consumer's name to
\* the registry and keeps every other name, a deregister() that succeeds
\* removes it and keeps every other name, after which the name is not a
\* member; a register() of a registered consumer and a deregister() of one
\* that is not registered leave the registry as it is, and so does a call
\* that fails; no consumer is registered at the start, and a name enters the
\* registry only by a register() of that consumer and leaves it only by its
\* deregister() or stop().
C19_Registry ==
    /\ registry = {}
    /\ [][\A c \in Consumers :
            /\ Register(c, FALSE) =>
                  (c \in registry' /\ registry' = registry \cup {c})
            /\ Deregister(c, FALSE) =>
                  (c \notin registry' /\ registry' = registry \ {c})
            /\ (c \in registry /\ \E f \in BOOLEAN : Register(c, f)) =>
                  registry' = registry
            /\ (c \notin registry /\ \E f \in BOOLEAN : Deregister(c, f)) =>
                  registry' = registry
            /\ (Register(c, TRUE) \/ Deregister(c, TRUE)) =>
                  registry' = registry
            /\ (c \in registry' /\ c \notin registry) => Register(c, FALSE)
            /\ (c \in registry /\ c \notin registry') =>
                  (Deregister(c, FALSE) \/ Stop(c, FALSE))]_vars

\* Both consumers have registered, the second keeping the name of the
\* first; neither was stopped and each holds a claimed payload.
C19_Witness ==
    /\ registry = Consumers
    /\ \A c \in Consumers :
          /\ ~stopped[c]
          /\ lists[ProcessingQ(c)] # <<>>

\* What a successful Producer.push(job) does to Redis and to the sizes: one
\* encoded payload more at the head of the source queue, nothing else
\* changed, and both size() one larger.
PushEffect(job) ==
    /\ ProducerPushReturn(job, FALSE).res = "Ok"
    /\ lists'[SourceQ] = <<encode_message(job)>> \o lists[SourceQ]
    /\ OnlyChanged({SourceQ})
    /\ registry' = registry /\ guards' = guards /\ stopped' = stopped
    /\ producer_size(FALSE)' = producer_size(FALSE) + 1
    /\ \A c \in Consumers : consumer_size(c, FALSE)' = consumer_size(c, FALSE) + 1

\* What next() returns when it hands out job.
Delivers(job) == [res |-> "SomeOk", id |-> job.id, msg |-> ""]

\* C20 (Producer.push), as claimed: a successful push prepends one encoded
\* payload to the source queue and changes nothing else, both sizes grow by
\* one, and the next next() of a consumer on that queue returns the pushed
\* value.
C20_PushAsClaimed ==
    [][\A job \in FifoJobs : ProducerPush(job, FALSE) =>
          /\ PushEffect(job)
          /\ \A c \in Consumers : NextReturn(c, "data")' = Delivers(job)]_vars

\* C20 (Producer.push), amended: a successful push prepends one encoded
\* payload to the source queue and changes nothing else, both sizes grow by
\* one, and, when the source queue was empty before the push, the next
\* next() of a consumer on that queue returns the pushed value.
C20_Push ==
    [][\A job \in FifoJobs : ProducerPush(job, FALSE) =>
          /\ PushEffect(job)
          /\ lists[SourceQ] = <<>> =>
                \A c \in Consumers : NextReturn(c, "data")' = Delivers(job)]_vars

\* The first push has put its payload on the empty source queue: both sizes
\* are one and a next() would return the message pushed.
C20_Witness ==
    \E job \in FifoJobs :
        /\ pushLog = <<encode_message(job)>>
        /\ lists[SourceQ] = pushLog
        /\ Claimed = <<>>
        /\ producer_size(FALSE) = 1
        /\ consumer_size(FifoConsumer, FALSE) = 1
        /\ NextReturn(FifoConsumer, "data") = Delivers(job)

\* C21 (one claimer): with several consumers calling next() on one source
\* queue, a next() that claims takes the tail of the source queue into the
\* processing queue of the caller only and creates one guard, the caller's;
\* no processing queue, guard or claim of another consumer changes; and in
\* every state each pushed instance of a payload is either still in the
\* source queue or was claimed exactly once, by one consumer.
C21_OneClaimer ==
    /\ [][\A c \in Consumers :
            (Next(c, "data") /\ ~is_stopped(c)) =>
               LET S == lists[SourceQ]
                   v == S[Len(S)]
               IN /\ lists'[SourceQ] = SubSeq(S, 1, Len(S) - 1)
                  /\ lists'[ProcessingQ(c)] = <<v>> \o lists[ProcessingQ(c)]
                  /\ claimLog'[c] = Append(claimLog[c], v)
                  /\ Len(guards'[c]) = Len(guards[c]) + 1
                  /\ guards'[c][Len(guards'[c])].payload = v
                  /\ \A d \in Consumers \ {c} :
                        /\ lists'[ProcessingQ(d)] = lists[ProcessingQ(d)]
                        /\ guards'[d] = guards[d]
                        /\ claimLog'[d] = claimLog[d]]_vars
    /\ [](\A v \in Payloads :
            ClaimCount(v) + Count(lists[SourceQ], v) = Count(pushLog, v))

\* Two messages were pushed and each consumer claimed one of them: each
\* holds one guard and one entry in its processing queue.
C21_Witness ==
    /\ Len(pushLog) = 2
    /\ pushLog[1] # pushLog[2]
    /\ lists[SourceQ] = <<>>
    /\ \A c \in Consumers :
          /\ Len(claimLog[c]) = 1
          /\ Len(guards[c]) = 1
          /\ lists[ProcessingQ(c)] = claimLog[c]
    /\ claimLog["c1"] # claimLog["c2"]

\* C22 (guard states), as claimed: a guard starts Unacked; whether or not
\* its command succeeds, ack() leaves the guard Acked, reject() leaves it
\* Rejected and push(q) leaves it Pushed.
C22_GuardStates ==
    [][\A c \in Consumers :
         /\ (Next(c, "data") /\ Len(guards'[c]) > Len(guards[c])) =>
               guards'[c][Len(guards'[c])].state = "Unacked"
         /\ \A i \in 1..Len(guards[c]) : \A f \in BOOLEAN :
               /\ Ack(c, i, f) => guards'[c][i].state = "Acked"
               /\ Reject(c, i, f) => guards'[c][i].state = "Rejected"
               /\ \A t \in Targets :
                     Push(c, i, t, f) => guards'[c][i].state = "Pushed"]_vars

\* An explicit transition of guard i of consumer c, its command failing or
\* not.
Transition(c, i) ==
    \E f \in BOOLEAN :
        \/ Ack(c, i, f)
        \/ Reject(c, i, f)
        \/ \E t \in Targets \cup RequeueTargets : Push(c, i, t, f)

\* C23 (no rescue after a transition): an ack(), reject() or push(q) leaves
\* the guard out of Unacked whether or not its command succeeded; a guard
\* that left Unacked never returns to it; and the drop of a guard that is not
\* Unacked sends no command (there is none that could fail), changes no list
\* and only takes the guard away.
C23_NoSecondRescue ==
    [][\A c \in Consumers : \A i \in 1..Len(guards[c]) :
         /\ Transition(c, i) => guards'[c][i].state # "Unacked"
         /\ (Len(guards'[c]) >= Len(guards[c]) /\ guards[c][i].state # "Unacked")
               => guards'[c][i].state # "Unacked"
         /\ guards[c][i].state # "Unacked" =>
               /\ ~Drop(c, i, TRUE)
               /\ Drop(c, i, FALSE) =>
                     /\ lists' = lists
                     /\ pending' = pending
                     /\ guards'[c] = RemoveAt(guards[c], i)]_vars

\* An ack() failed, so the payload is still in the processing queue, and
\* its guard was dropped without a rescue: the unacked queue is empty.
C23_Witness ==
    \E c \in Consumers, v \in Payloads :
        /\ pushLog = <<v>>
        /\ claimLog[c] = <<v>>
        /\ acked = {v}
        /\ guards[c] = <<>>
        /\ lists[ProcessingQ(c)] = <<v>>
        /\ lists[UnackedQ(c)] = <<>>

\* C24 (state before I/O): an ack() whose LREM fails leaves the guard Acked
\* and every list as it was, so the payload is still in the processing
\* queue, and the drop of that guard changes no list; and a drop of an
\* Unacked guard whose reject fails takes the guard away and leaves every
\* list as it was, the payload still in the processing queue and not in the
\* unacked queue.
C24_StateBeforeIO ==
    [][\A c \in Consumers : \A i \in 1..Len(guards[c]) :
         LET v == guards[c][i].payload
         IN /\ Ack(c, i, TRUE) =>
                  /\ guards'[c][i].state = "Acked"
                  /\ lists' = lists
                  /\ Count(lists'[ProcessingQ(c)], v)
                        = Count(lists[ProcessingQ(c)], v)
            /\ (guards[c][i].state = "Acked" /\ \E f \in BOOLEAN : Drop(c, i, f))
                  => lists' = lists
            /\ (guards[c][i].state = "Unacked" /\ Drop(c, i, TRUE)) =>
                  /\ lists' = lists
                  /\ guards'[c] = RemoveAt(guards[c], i)
                  /\ Count(lists'[UnackedQ(c)], v) = Count(lists[UnackedQ(c)], v)
                  /\ Count(lists'[ProcessingQ(c)], v)
                        = Count(lists[ProcessingQ(c)], v)]_vars

\* The reject of a drop failed: the payload was claimed, no ack() was ever
\* called, the guard is gone and the payload is in the processing queue and
\* in no other list.
C24_Witness ==
    \E c \in Consumers, v \in Payloads :
        /\ Decodable(v)
        /\ pushLog = <<v>>
        /\ claimLog[c] = <<v>>
        /\ acked = {}
        /\ guards[c] = <<>>
        /\ \A k \in Keys : lists[k] = IF k = ProcessingQ(c) THEN <<v>> ELSE <<>>

\* C25 (ack state check), as claimed: with every command succeeding, an
\* ack() on a guard whose earlier ack() was executed removes nothing, so the
\* acks of one guard remove at most one entry of the processing queue in
\* total, also when the queue holds another entry with the same payload
\* bytes.
C25_AckOnce ==
    [][\A c \in Consumers : \A i \in 1..Len(guards[c]) :
         (guards[c][i].state = "Acked" /\ Ack(c, i, FALSE))
            => lists'[ProcessingQ(c)] = lists[ProcessingQ(c)]]_vars

\* C26 (bounded sweep): inside collect_one's loop the moves made are fewer
\* than the length n read at the start, and n is not read again: only a
\* step of the loop changes the GC's counters, whatever is prepended to the
\* unacked queue meanwhile; a step of the loop either returns or leaves n as
\* it was and counts one more move; the count returned is at most n; a step
\* that finds the unacked queue empty returns the moves made so far and
\* changes no list; and a sweep that is in its loop returns.
C26_BoundedSweep ==
    /\ []((gc.pc = "loop") =>
            /\ gc.n >= 1
            /\ gc.i < gc.n
            /\ gc.total = gc.i)
    /\ [][(gc.pc = "loop" /\ gc' # gc) => \E f \in BOOLEAN : GcMove(f)]_vars
    /\ [][\A f \in BOOLEAN : GcMove(f) =>
            LET out == CollectOneMove(gc, f)
            IN IF gc'.pc = "idle"
               THEN /\ out.returns.op = "collect_one"
                    /\ out.returns.n <= gc.n
                    /\ (~f /\ lists[UnackedQ(gc.cur)] = <<>>) =>
                          /\ out.returns = [op |-> "collect_one", res |-> "Ok",
                                            n |-> gc.i]
                          /\ out.returns.n < gc.n
                          /\ lists' = lists
               ELSE /\ gc'.n = gc.n
                    /\ gc'.i = gc.i + 1
                    /\ gc'.n - gc'.i < gc.n - gc.i]_vars
    /\ ((gc.pc = "loop") ~> (gc.pc = "idle"))

\* A sweep read a length of two and has moved one entry; the other was
\* taken by another GC, so the unacked queue is empty and the next
\* RPOPLPUSH of the sweep answers nil.
C26_Witness ==
    /\ gc.pc = "loop" /\ gc.mode = "one"
    /\ gc.n = 2 /\ gc.i = 1
    /\ lists[UnackedQ(gc.cur)] = <<>>
    /\ Len(lists[ProcessingQ(gc.cur)]) = 2

\* The step the GC takes in state g when its command fails or not.
GcStep(g, fails) ==
    IF g.pc = "llen" THEN CollectOneLLen(g, fails) ELSE CollectOneMove(g, fails)

\* C27 (GC error isolation): collect() returns an error when SMEMBERS fails
\* and only then; collect_one returns the error of its first failing
\* command, LLEN or RPOPLPUSH, and the failing command changes no list, so
\* what was moved before stays in the processing queue; inside collect() a
\* failing command ends the sweep of that consumer only, adds nothing to the
\* sum, and collect() goes on with the next registered name or, after the
\* last, returns Ok with the sum; a sweep of a consumer that ends without an
\* error adds its count to the sum.
C27_ErrorIsolation ==
    /\ [](gc.pc = "idle" =>
            /\ \A order \in Orders(registry) :
                  /\ CollectSMembers(order, TRUE)
                        = [gc |-> GcIdle,
                           returns |-> [op |-> "collect", res |-> "Err", n |-> 0]]
                  /\ CollectSMembers(order, FALSE).returns.res # "Err"
            /\ \A name \in Consumers :
                  CollectOneLLen(OneCall(name), TRUE)
                     = [gc |-> GcIdle,
                        returns |-> [op |-> "collect_one", res |-> "Err", n |-> 0]])
    /\ [][(gc.mode = "one" /\ GcMove(TRUE)) =>
            /\ gc' = GcIdle
            /\ GcStep(gc, TRUE).returns.res = "Err"
            /\ lists' = lists
            /\ Len(lists'[ProcessingQ(gc.cur)]) >= gc.i]_vars
    /\ [][\A f \in BOOLEAN :
            (gc.mode = "all" /\ (GcLLen(f) \/ GcMove(f))) =>
               LET out == GcStep(gc, f)
                   ended == out.gc.pc # "loop"
                   count == IF f THEN 0
                            ELSE IF gc.pc = "llen" THEN 0 ELSE gc.total + 1
               IN /\ out.returns.res # "Err"
                  /\ f => (ended /\ lists' = lists)
                  /\ ended =>
                        IF Len(gc.todo) > 1
                        THEN /\ out.returns = NoReturn
                             /\ gc'.pc = "llen"
                             /\ gc'.todo = Tail(gc.todo)
                             /\ gc'.cur = gc.todo[2]
                             /\ gc'.sum = gc.sum + count
                        ELSE /\ gc' = GcIdle
                             /\ out.returns = [op |-> "collect", res |-> "Ok",
                                               n |-> gc.sum + count]]_vars

\* The sweep of collect()'s first consumer failed, so that consumer keeps
\* its entry unacked and nothing was added to the sum, and collect() is now
\* moving the entry of the second consumer.
C27_Witness ==
    /\ gc.mode = "all" /\ gc.pc = "loop"
    /\ registry = Consumers
    /\ Len(gc.todo) = 1
    /\ gc.sum = 0
    /\ \E c \in Consumers \ {gc.cur} :
          /\ Len(lists[UnackedQ(c)]) = 1
          /\ Len(lists[ProcessingQ(c)]) = 1
    /\ Len(lists[UnackedQ(gc.cur)]) = 1

\* List new holds every entry of list old, in place, behind what was put at
\* its head.
KeepsAll(old, new) ==
    /\ Len(new) >= Len(old)
    /\ SubSeq(new, Len(new) - Len(old) + 1, Len(new)) = old

\* A step of the GC: a command of collect_one or collect.
GcCommand ==
    \E f \in BOOLEAN :
        \/ GcMove(f)
        \/ GcLLen(f)
        \/ \E name \in Consumers : GcCollectOne(name, f)
        \/ \E order \in Orders(registry) : GcCollect(order, f)

\* A call on guard i of consumer c that sends a command: ack, reject, push
\* or the drop of the guard.
GuardCall(c, i) ==
    \/ Transition(c, i)
    \/ \E f \in BOOLEAN : Drop(c, i, f)

\* What a GC command that changes a list does: it is an RPOPLPUSH of the
\* sweep, leaves the source queue and the retry queue as they were and every
\* processing queue with all its entries.
GcFrame ==
    GcCommand =>
        /\ \E f \in BOOLEAN : GcMove(f)
        /\ lists'[SourceQ] = lists[SourceQ]
        /\ lists'[RetryQ] = lists[RetryQ]
        /\ \A c \in Consumers :
              /\ KeepsAll(lists[ProcessingQ(c)], lists'[ProcessingQ(c)])
              /\ Len(lists'[UnackedQ(c)]) <= Len(lists[UnackedQ(c)])

\* The source queue changed by a push of the producer, which prepends one
\* payload, or by a next(), which takes its tail.
SourceByPushOrNext ==
    \/ \E job \in Jobs :
          /\ ProducerPush(job, FALSE)
          /\ lists'[SourceQ] = <<encode_message(job)>> \o lists[SourceQ]
    \/ /\ \E c \in Consumers : Next(c, "data")
       /\ lists'[SourceQ] = SubSeq(lists[SourceQ], 1, Len(lists[SourceQ]) - 1)

\* The source queue changed by push(source queue) of a live guard, which
\* prepends the guard's payload.
SourceByRequeue ==
    \E c \in Consumers : \E i \in 1..Len(guards[c]) :
        /\ Push(c, i, SourceQ, FALSE)
        /\ lists'[SourceQ] = <<guards[c][i].payload>> \o lists[SourceQ]

\* The copies of a payload in a processing queue become fewer only by a call
\* on a live guard of that consumer holding that payload.
GuardedRemoval ==
    \A c \in Consumers : \A v \in Payloads :
        Count(lists'[ProcessingQ(c)], v) < Count(lists[ProcessingQ(c)], v)
           => \E i \in 1..Len(guards[c]) :
                 /\ guards[c][i].payload = v
                 /\ GuardCall(c, i)

\* C29 (frame), as claimed: no GC command removes an entry from a
\* processing queue or from the source queue; the source queue changes only
\* by a push of the producer or by a next(), so no library operation moves
\* an entry from a processing queue back to it; and an entry of a processing
\* queue without a live guard stays.
C29_FrameAsClaimed ==
    [][lists' # lists =>
         /\ GcFrame
         /\ lists'[SourceQ] # lists[SourceQ] => SourceByPushOrNext
         /\ GuardedRemoval]_vars

\* C29 (frame), amended: no GC command removes an entry from a processing
\* queue or from the source queue; the source queue changes only by a push
\* of the producer, by a next(), or by push(source queue) of a live guard,
\* the one library operation that moves an entry from a processing queue
\* back to it; and an entry of a processing queue without a live guard
\* stays.
C29_Frame ==
    [][lists' # lists =>
         /\ GcFrame
         /\ lists'[SourceQ] # lists[SourceQ] =>
               (SourceByPushOrNext \/ SourceByRequeue)
         /\ GuardedRemoval]_vars

\* Two payloads were claimed; one guard requeued its payload onto the source
\* queue, the other rejected its payload and the GC returned that entry from
\* the unacked queue to the processing queue.
C29_Witness ==
    \E c \in Consumers :
        /\ Len(guards[c]) = 2
        /\ \A i \in 1..2 : guards[c][i].state = "Pushed"
        /\ lists[UnackedQ(c)] = <<>>
        /\ lists[SourceQ] = <<encode_message(Message(1))>>
        /\ lists[ProcessingQ(c)] = <<encode_message(Message(1))>>
        /\ gc.pc = "idle"

\* ------------------------------------------------------------------- C30
\* s without its last element, and that element.
Front(s) == SubSeq(s, 1, Len(s) - 1)
Last(s) == s[Len(s)]

\* The unacked queue changes only by losing its tail, which becomes the head
\* of the processing queue, or by gaining a new head.
TailOutHeadIn(c) ==
    LET U == lists[UnackedQ(c)]
        P == lists[ProcessingQ(c)]
    IN lists'[UnackedQ(c)] # U =>
          \/ /\ gc.pc = "loop" /\ gc.cur = c /\ gc' # gc
             /\ U # <<>>
             /\ lists'[UnackedQ(c)] = Front(U)
             /\ lists'[ProcessingQ(c)] = <<Last(U)>> \o P
          \/ /\ gc' = gc
             /\ \E v \in Payloads : lists'[UnackedQ(c)] = <<v>> \o U

\* A step of the GC leaves the unacked entries followed by the processing
\* entries as they were.
SweepKeepsOrder ==
    gc' # gc =>
        \A c \in Consumers :
            lists'[UnackedQ(c)] \o lists'[ProcessingQ(c)]
                = lists[UnackedQ(c)] \o lists[ProcessingQ(c)]

\* The entries counted by LLEN and not yet moved are the last ones of the
\* unacked queue: entries rejected since then lie in front of them.
SnapshotAtTail ==
    gc.pc = "loop" => Len(lists[UnackedQ(gc.cur)]) >= gc.n - gc.i

\* C30: every GC move takes the tail of U(c), its oldest entry, to the head
\* of P(c) and every reject is prepended at the head of U(c), so that the
\* entries counted by the length snapshot are moved before any entry rejected
\* later; a sweep keeps the order of the U(c) entries, in front of the
\* entries P(c) already held.
C30_GcOrder ==
    /\ []SnapshotAtTail
    /\ [][SweepKeepsOrder /\ \A c \in Consumers : TailOutHeadIn(c)]_vars

\* The sweep counted two rejected messages and has moved the older one, the
\* first message, to the processing queue; the second is its next move.
C30_Witness ==
    /\ gc.pc = "loop" /\ gc.cur = OrderConsumer
    /\ gc.n = 2 /\ gc.i = 1
    /\ lists[UnackedQ(OrderConsumer)] = <<encode_message(Message(2))>>
    /\ lists[ProcessingQ(OrderConsumer)] = <<encode_message(Message(1))>>
    /\ Len(guards[OrderConsumer]) = 2
    /\ guards[OrderConsumer][1].payload = encode_message(Message(1))

====
